---- MODULE Spec2Model ----
(***************************************************************************)
(* Clara 2: the four-sample window Discrete<T> with its centred            *)
(* derivatives, and More_discrete, the momentum -> gamma -> beta           *)
(* conversion (src/src/include/discrete.hpp).                              *)
(*                                                                         *)
(* Values of type double are modelled as binary floating-point numbers     *)
(* m * 2^e with a Prec-bit significand, every operation rounded to         *)
(* nearest, ties to even, as IEEE-754 does.  The significand is narrower   *)
(* than the 53 bits of a double so that the arithmetic stays within TLC's  *)
(* integers; the exponent is unbounded (the modelled inputs stay far from  *)
(* the overflow and underflow thresholds of a double).                     *)
(***************************************************************************)
EXTENDS Integers, Sequences, FiniteSets, TLC

\* significand width of the modelled double
Prec == 5

(***************************************************************************)
(* Integer helpers                                                         *)
(***************************************************************************)
RECURSIVE Pow2(_)
Pow2(n) == IF n <= 0 THEN 1 ELSE 2 * Pow2(n - 1)

Abs(n) == IF n < 0 THEN -n ELSE n

Sgn(n) == IF n < 0 THEN -1 ELSE IF n > 0 THEN 1 ELSE 0

\* number of binary digits of n >= 0
RECURSIVE BitLen(_)
BitLen(n) == IF n = 0 THEN 0 ELSE 1 + BitLen(n \div 2)

\* floor of the square root of n >= 0, by bisection on [lo, hi)
RECURSIVE ISqrtIn(_, _, _)
ISqrtIn(n, lo, hi) ==
  IF hi - lo <= 1 THEN lo
  ELSE LET mid == (lo + hi) \div 2
       IN IF mid * mid <= n THEN ISqrtIn(n, mid, hi) ELSE ISqrtIn(n, lo, mid)

ISqrt(n) == ISqrtIn(n, 0, Pow2((BitLen(n) + 1) \div 2) + 1)

(***************************************************************************)
(* double: k = "fin" is the number m * 2^e (m = 0, or Prec significant     *)
(* bits); "inf" (sign in m) and "nan" are what a division by zero yields;  *)
(* "indet" is the indeterminate value of a member no constructor set.      *)
(***************************************************************************)
Fl(m, e) == [k |-> "fin", m |-> m, e |-> e]

Zero == Fl(0, 0)

NaN == [k |-> "nan", m |-> 0, e |-> 0]

Inf(s) == [k |-> "inf", m |-> s, e |-> 0]

Indet == [k |-> "indet", m |-> 0, e |-> 0]

IsFin(a) == a.k = "fin"

\* n * 2^e rounded to the nearest double, ties to even
Rnd(n, e) ==
  IF n = 0 THEN Zero
  ELSE LET a == Abs(n)
           len == BitLen(a)
       IN IF len <= Prec
          THEN Fl(Sgn(n) * a * Pow2(Prec - len), e - (Prec - len))
          ELSE LET sh == len - Prec
                   q == a \div Pow2(sh)
                   r == a % Pow2(sh)
                   half == Pow2(sh - 1)
                   up == r > half \/ (r = half /\ q % 2 = 1)
                   q1 == IF up THEN q + 1 ELSE q
               IN IF q1 = Pow2(Prec)
                  THEN Fl(Sgn(n) * Pow2(Prec - 1), e + sh + 1)
                  ELSE Fl(Sgn(n) * q1, e + sh)

\* the double nearest to the integer n
Num(n) == Rnd(n, 0)

One == Num(1)

FNeg(a) == [a EXCEPT !.m = -a.m]

FMul(a, b) == Rnd(a.m * b.m, a.e + b.e)

\* a + b for finite a, b (an indeterminate operand makes the result
\* indeterminate); an operand more than Prec + 2 binades below the other only
\* decides the direction of rounding
FAdd(a, b) ==
  IF a.k = "indet" \/ b.k = "indet" THEN Indet
  ELSE IF a.m = 0 THEN b
  ELSE IF b.m = 0 THEN a
  ELSE LET hi == IF a.e >= b.e THEN a ELSE b
           lo == IF a.e >= b.e THEN b ELSE a
           d == hi.e - lo.e
       IN IF d > Prec + 2
          THEN Rnd(hi.m * Pow2(Prec + 3) + Sgn(lo.m), hi.e - (Prec + 3))
          ELSE Rnd(hi.m * Pow2(d) + lo.m, lo.e)

FSub(a, b) == FAdd(a, FNeg(b))

\* a / b; x/0 is an infinity and 0/0 a NaN
FDiv(a, b) ==
  IF a.k = "indet" \/ b.k = "indet" THEN Indet
  ELSE IF b.m = 0 THEN (IF a.m = 0 THEN NaN ELSE Inf(Sgn(a.m)))
  ELSE IF a.m = 0 THEN Zero
  ELSE LET n == Abs(a.m) * Pow2(Prec + 2)
           q == n \div Abs(b.m)
           r == n % Abs(b.m)
           st == IF r = 0 THEN 0 ELSE 1
       IN Rnd(Sgn(a.m) * Sgn(b.m) * (2 * q + st), a.e - b.e - (Prec + 3))

\* sqrt(a), a >= 0
FSqrt(a) ==
  IF a.m = 0 THEN Zero
  ELSE LET k == IF (a.e - (Prec + 4)) % 2 = 0 THEN Prec + 4 ELSE Prec + 5
           n == a.m * Pow2(k)
           s == ISqrt(n)
           st == IF s * s = n THEN 0 ELSE 1
       IN Rnd(2 * s + st, ((a.e - k) \div 2) - 1)

\* a < b for finite a, b
FLt(a, b) ==
  LET d == FSub(a, b) IN d.m < 0

FLe(a, b) == ~FLt(b, a)


(***************************************************************************)
(* State                                                                   *)
(***************************************************************************)
VARIABLES
  h,        \* the time axis, a Discrete<double>; windows point to it as "h"
  x,        \* a Discrete<double> of sampled values
  y,        \* a second Discrete<double>, the other side of operator=
  p,        \* the momentum window, a Discrete<R_vec>
  gam,      \* the window momentum_to_gamma returned last
  bet,      \* the window momentum_to_beta returned last
  fed,      \* log of the values given to x (constructor arguments, then
            \* next()'s); kept where next() is called on x alone
  nnext,    \* the number of next() calls on the window a run advances
  ret,      \* the value the last accessor call returned
  lastOp,   \* the member function called last
  poly,     \* the sampled quantity q(t) and its uniform sampling times
  ndebug,   \* whether the build defines NDEBUG (assert compiled out)
  aborted   \* whether a failed assert has terminated the program

vars == <<h, x, y, p, gam, bet, fed, nnext, ret, lastOp, poly, ndebug, aborted>>

(***************************************************************************)
(* Discrete<T>                                                             *)
(***************************************************************************)
\* Discrete(T old2, T old, T now, T future, const Discrete<double>* h)
Discrete4(o2, o, n, f, hp) ==
  [old2 |-> o2, old |-> o, now |-> n, future |-> f, h |-> hp]

\* Discrete(const Discrete<double>* h): the four values are not initialised
DiscreteH(hp) ==
  [old2 |-> Indet, old |-> Indet, now |-> Indet, future |-> Indet, h |-> hp]

get_old2(w) == w.old2

get_old(w) == w.old

get_now(w) == w.now

get_future(w) == w.future

\* *hp: "h" is the time axis; the axis "h2" is never advanced
Deref(hp) ==
  IF hp = "h" THEN h
  ELSE [old2 |-> Num(0), old |-> Num(1), now |-> Num(2), future |-> Num(3),
        h |-> "null"]

\* next() with its first two assignments exchanged: old is overwritten
\* before it is moved to old2
next_old_first(w, v) ==
  LET w1 == [w EXCEPT !.old = w.now]
      w2 == [w1 EXCEPT !.old2 = w1.old]
      w3 == [w2 EXCEPT !.now = w2.future]
  IN [w3 EXCEPT !.future = v]

\* next() without its last assignment: the new value is never stored
next_drops_value(w, v) ==
  LET w1 == [w EXCEPT !.old2 = w.old]
      w2 == [w1 EXCEPT !.old = w1.now]
  IN [w2 EXCEPT !.now = w2.future]

\* void next(T next): the four assignments in the order of the code
next(w, v) ==
  LET w1 == [w EXCEPT !.old2 = w.old]
      w2 == [w1 EXCEPT !.old = w1.now]
      w3 == [w2 EXCEPT !.now = w2.future]
  IN [w3 EXCEPT !.future = v]

\* dot_old() as a one-sided difference: now - old over the two-step interval
dot_old_one_sided(w, ax) ==
  FDiv(FSub(w.now, w.old), FSub(get_now(ax), get_old2(ax)))

\* T dot_old() const; ax is *h, the window the member h points to
dot_old(w, ax) ==
  FDiv(FSub(w.now, w.old2), FSub(get_now(ax), get_old2(ax)))

\* dot_now() taking its older sample from old2 instead of old
dot_now_from_old2(w, ax) ==
  FDiv(FSub(w.future, w.old2), FSub(get_future(ax), get_old(ax)))

\* T dot_now() const; ax is *h
dot_now(w, ax) ==
  FDiv(FSub(w.future, w.old), FSub(get_future(ax), get_old(ax)))

\* an assert that never fires
assert_missing(w, copy) == TRUE

\* assert(copy.h == h): whether operator= gets past it; with NDEBUG the macro
\* expands to nothing
assert_same_axis(w, copy) == ndebug \/ copy.h = w.h

\* operator= after the assert: the four values are copied, h is not
assign(w, copy) ==
  LET w1 == [w EXCEPT !.old2 = copy.old2]
      w2 == [w1 EXCEPT !.old = copy.old]
      w3 == [w2 EXCEPT !.now = copy.now]
  IN [w3 EXCEPT !.future = copy.future]

Values(w) == <<get_old2(w), get_old(w), get_now(w), get_future(w)>>

(***************************************************************************)
(* R_vec, the constants of namespace phy, and More_discrete                *)
(***************************************************************************)
\* speed of light [m/s]
phy_c == Rnd(299792458, 0)

\* electron rest mass [kg], 9.1093897e-31 = 9686765 * 2^-123
phy_m_e == Rnd(9686765, -123)

\* R_vec * double
VMul(v, s) == <<FMul(v[1], s), FMul(v[2], s), FMul(v[3], s)>>

\* util::square(double)
square(a) == FMul(a, a)

\* util::square<R_vec, double>: the scalar product of v with itself
square_vec(v) ==
  FAdd(FAdd(FMul(v[1], v[1]), FMul(v[2], v[2])), FMul(v[3], v[3]))

\* gamma() without the rest energy under the root: |p| c / (m_e c^2)
gamma_no_rest_energy(pv) ==
  FDiv(FSqrt(square_vec(VMul(pv, phy_c))), FMul(phy_m_e, square(phy_c)))

\* double gamma(R_vec p)
gamma(pv) ==
  FDiv(FSqrt(FAdd(square_vec(VMul(pv, phy_c)),
                  square(FMul(phy_m_e, square(phy_c))))),
       FMul(phy_m_e, square(phy_c)))

\* R_vec beta(R_vec p, double gamma)
beta(pv, g) == VMul(pv, FDiv(One, FMul(FMul(phy_c, phy_m_e), g)))

\* the member stepwidth of the converter: the address of the time axis
stepwidth == "h"

\* Discrete<double> momentum_to_gamma(Discrete<R_vec>& p)
momentum_to_gamma(pw) ==
  Discrete4(gamma(get_old2(pw)), gamma(get_old(pw)),
            gamma(get_now(pw)), gamma(get_future(pw)), stepwidth)

\* momentum_to_beta() pairing each momentum with the gamma one slot earlier
momentum_to_beta_shifted(pw, gw) ==
  Discrete4(beta(get_old2(pw), get_old2(gw)), beta(get_old(pw), get_old2(gw)),
            beta(get_now(pw), get_old(gw)), beta(get_future(pw), get_now(gw)),
            stepwidth)

\* Discrete<R_vec> momentum_to_beta(Discrete<R_vec> p, Discrete<double> gamma)
momentum_to_beta(pw, gw) ==
  Discrete4(beta(get_old2(pw), get_old2(gw)), beta(get_old(pw), get_old(gw)),
            beta(get_now(pw), get_now(gw)), beta(get_future(pw), get_future(gw)),
            stepwidth)

(***************************************************************************)
(* Bounds and input sets                                                   *)
(***************************************************************************)
\* most next() calls on one window in a run
MaxNext == 4

\* sample values and times fed to the windows
SampleInts == {1, 2, 3}

Samples == {Num(n) : n \in SampleInts}

AxisPtrs == {"h", "h2"}

StdAxis == Discrete4(Num(0), Num(1), Num(2), Num(3), "null")

NoPoly == [a |-> 0, b |-> 0, c |-> 0, t0 |-> 0, dt |-> 0, k |-> 0]

NoVecWin == Discrete4(<<Zero, Zero, Zero>>, <<Zero, Zero, Zero>>,
                      <<Zero, Zero, Zero>>, <<Zero, Zero, Zero>>, "h")

(***************************************************************************)
(* Shifting: construction, next() and the derivative accessors on x        *)
(***************************************************************************)
InitShift ==
  /\ h = StdAxis
  /\ \/ \E v0, v1, v2, v3 \in Samples :
          /\ x = Discrete4(v0, v1, v2, v3, "h")
          /\ fed = <<v0, v1, v2, v3>>
     \/ /\ x = DiscreteH("h")
        /\ fed = <<>>
  /\ y = DiscreteH("h")
  /\ p = NoVecWin /\ gam = DiscreteH("h") /\ bet = NoVecWin
  /\ nnext = 0
  /\ ret = Zero
  /\ lastOp = "Discrete"
  /\ poly = NoPoly
  /\ ndebug = FALSE
  /\ aborted = FALSE

NextX(v) ==
  /\ ~aborted
  /\ nnext < MaxNext
  /\ x' = next(x, v)
  /\ fed' = Append(fed, v)
  /\ nnext' = nnext + 1
  /\ lastOp' = "next"
  /\ UNCHANGED <<h, y, p, gam, bet, ret, poly, ndebug, aborted>>

CallDotOld ==
  /\ ~aborted
  /\ ret' = dot_old(x, Deref(x.h))
  /\ lastOp' = "dot_old"
  /\ UNCHANGED <<h, x, y, p, gam, bet, fed, nnext, poly, ndebug, aborted>>

CallDotNow ==
  /\ ~aborted
  /\ ret' = dot_now(x, Deref(x.h))
  /\ lastOp' = "dot_now"
  /\ UNCHANGED <<h, x, y, p, gam, bet, fed, nnext, poly, ndebug, aborted>>

NextShift ==
  \/ \E v \in Samples : NextX(v)
  \/ CallDotOld
  \/ CallDotNow

Spec == InitShift /\ [][NextShift]_vars

LastFour(s) == SubSeq(s, Len(s) - 3, Len(s))

\* C1: a window constructed with four values and advanced by n >= 1 calls of
\* next() holds, in (old2, old, now, future), exactly the last four of all the
\* values it was given, in the order given.
C1_NextKeepsLastFour ==
  (Len(fed) = nnext + 4 /\ nnext >= 1) => Values(x) = LastFour(fed)

C1_Witness ==
  /\ Len(fed) = nnext + 4
  /\ nnext = 3
  /\ fed[1] # fed[2] /\ fed[4] # fed[5] /\ fed[6] # fed[7]
  /\ Values(x) = <<fed[4], fed[5], fed[6], fed[7]>>

\* a window built by Discrete(h) alone: every value it holds came from next()
AxisOnly == Len(fed) = nnext

\* C4 (as claimed): for a window built with the axis-only constructor, after
\* k < 4 calls of next() both dot_old() and dot_now() read a slot that was never
\* set, and from the fourth next() on the four slots are the last four values
\* supplied.
C4_BothUnsetBeforeFour ==
  AxisOnly =>
    /\ nnext < 4 => (dot_old(x, h) = Indet /\ dot_now(x, h) = Indet)
    /\ nnext >= 4 => Values(x) = LastFour(fed)

\* C4 (amended): dot_old() reads a never-set slot (old2) after every k < 4
\* calls of next(); dot_now() reads one (old) only after k < 3 calls: after the
\* third next() both slots it reads, old and future, hold supplied values and
\* its result is their centred difference.  A slot is unset exactly while fewer
\* than four values were supplied, and from the fourth next() on the four slots
\* are the last four values supplied, in order.
C4_UnsetReads ==
  AxisOnly =>
    /\ nnext < 4 => (dot_old(x, h) = Indet /\ Indet \in {Values(x)[i] : i \in 1..4})
    /\ nnext < 3 => dot_now(x, h) = Indet
    /\ nnext = 3 =>
         /\ get_old2(x) = Indet
         /\ dot_now(x, h) = FDiv(FSub(fed[3], fed[1]), FSub(h.future, h.old))
    /\ nnext >= 4 => Values(x) = LastFour(fed)
    /\ (lastOp = "dot_old" /\ nnext < 4) => ret = Indet
    /\ (lastOp = "dot_now" /\ nnext < 3) => ret = Indet
    /\ (lastOp = "dot_now" /\ nnext = 3) => IsFin(ret)

C4_Witness ==
  /\ AxisOnly
  /\ nnext = 3
  /\ lastOp = "dot_now"
  /\ fed[1] # fed[3]
  /\ IsFin(ret) /\ ret.m # 0

(***************************************************************************)
(* operator= between two windows, in a build with or without NDEBUG        *)
(***************************************************************************)
InitAssign ==
  /\ h = StdAxis
  /\ \E v \in Samples, hx \in AxisPtrs : x = Discrete4(v, v, Num(1), Num(2), hx)
  /\ \E v \in Samples, hy \in AxisPtrs : y = Discrete4(Num(3), v, v, Num(1), hy)
  /\ p = NoVecWin /\ gam = DiscreteH("h") /\ bet = NoVecWin
  /\ fed = <<>>
  /\ nnext = 0
  /\ ret = Zero
  /\ lastOp = "Discrete"
  /\ poly = NoPoly
  /\ ndebug \in BOOLEAN
  /\ aborted = FALSE

\* x = y
AssignX ==
  /\ ~aborted
  /\ IF assert_same_axis(x, y)
     THEN x' = assign(x, y) /\ aborted' = aborted
     ELSE x' = x /\ aborted' = TRUE
  /\ lastOp' = "assign_x"
  /\ UNCHANGED <<h, y, p, gam, bet, fed, nnext, ret, poly, ndebug>>

\* y = x
AssignY ==
  /\ ~aborted
  /\ IF assert_same_axis(y, x)
     THEN y' = assign(y, x) /\ aborted' = aborted
     ELSE y' = y /\ aborted' = TRUE
  /\ lastOp' = "assign_y"
  /\ UNCHANGED <<h, x, p, gam, bet, fed, nnext, ret, poly, ndebug>>

\* y.next(v)
NextY(v) ==
  /\ ~aborted
  /\ y' = next(y, v)
  /\ lastOp' = "next"
  /\ UNCHANGED <<h, x, p, gam, bet, fed, nnext, ret, poly, ndebug, aborted>>

NextAssign ==
  \/ AssignX
  \/ AssignY
  \/ \E v \in Samples : NextY(v)

SpecAssign == InitAssign /\ [][NextAssign]_vars

\* C3 (as claimed): x = y copies y's four values into x if and only if both are
\* bound to the same time axis; otherwise the assignment fails on the assert
\* and x keeps its four values and its axis.  Likewise for y = x.
C3_CopyIffSameAxis ==
  [][/\ lastOp' = "assign_x" =>
          IF x.h = y.h
          THEN Values(x') = Values(y) /\ x'.h = x.h /\ ~aborted'
          ELSE aborted' /\ x' = x
     /\ lastOp' = "assign_y" =>
          IF x.h = y.h
          THEN Values(y') = Values(x) /\ y'.h = y.h /\ ~aborted'
          ELSE aborted' /\ y' = y]_vars

\* C3 (amended): in a build with assertions enabled the claim holds as stated;
\* in a build that defines NDEBUG the assert is compiled out and an assignment
\* between windows on different axes copies the four values silently.  In
\* every build the target's axis binding is left unchanged.
C3_CopyUnlessAssertFires ==
  [][/\ lastOp' = "assign_x" =>
          IF x.h = y.h \/ ndebug
          THEN Values(x') = Values(y) /\ x'.h = x.h /\ ~aborted'
          ELSE aborted' /\ x' = x
     /\ lastOp' = "assign_y" =>
          IF x.h = y.h \/ ndebug
          THEN Values(y') = Values(x) /\ y'.h = y.h /\ ~aborted'
          ELSE aborted' /\ y' = y]_vars

C3_Witness ==
  /\ lastOp = "assign_x"
  /\ ~ndebug
  /\ x.h # y.h
  /\ aborted
  /\ Values(x) # Values(y)

(***************************************************************************)
(* The sampler: the time axis and the window on it advance in lockstep     *)
(***************************************************************************)
\* times and values the sampler may supply
TimeInts == {0, 1, 2, 3}

Times == {Num(n) : n \in TimeInts}

StepValues == {Num(1), Num(4)}

InitDeriv ==
  /\ h \in {Discrete4(Num(0), Num(1), Num(2), Num(3), "null"),
            Discrete4(Num(2), Num(2), Num(2), Num(2), "null")}
  /\ x \in {Discrete4(Num(0), Num(1), Num(4), Num(9), "h"),
            Discrete4(Num(1), Num(1), Num(1), Num(1), "h")}
  /\ y = DiscreteH("h")
  /\ p = NoVecWin /\ gam = DiscreteH("h") /\ bet = NoVecWin
  /\ fed = <<>>
  /\ nnext = 0
  /\ ret = Zero
  /\ lastOp = "Discrete"
  /\ poly = NoPoly
  /\ ndebug = FALSE
  /\ aborted = FALSE

\* h.next(t); x.next(v)
SamplerStep(t, v) ==
  /\ ~aborted
  /\ nnext < MaxNext
  /\ h' = next(h, t)
  /\ x' = next(x, v)
  /\ nnext' = nnext + 1
  /\ lastOp' = "next"
  /\ UNCHANGED <<y, p, gam, bet, fed, ret, poly, ndebug, aborted>>

NextDeriv ==
  \/ \E t \in Times, v \in StepValues : SamplerStep(t, v)
  \/ CallDotOld
  \/ CallDotNow

SpecDeriv == InitDeriv /\ [][NextDeriv]_vars

\* C2: dot_old() returns (now - old2) / (h.now - h.old2) and dot_now() returns
\* (future - old) / (h.future - h.old) whenever the denominator is not zero;
\* on the axis (0,1,2,3) with the values (0,1,4,9) they return 2 and 4.
C2_DerivativeFormulas ==
  /\ (lastOp = "dot_old" /\ h.now # h.old2) =>
       /\ ret = FDiv(FSub(get_now(x), get_old2(x)), FSub(h.now, h.old2))
       /\ IsFin(ret)
  /\ (lastOp = "dot_now" /\ h.future # h.old) =>
       /\ ret = FDiv(FSub(get_future(x), get_old(x)), FSub(h.future, h.old))
       /\ IsFin(ret)
  /\ (Values(h) = <<Num(0), Num(1), Num(2), Num(3)>>
        /\ Values(x) = <<Num(0), Num(1), Num(4), Num(9)>>) =>
       /\ lastOp = "dot_old" => ret = Num(2)
       /\ lastOp = "dot_now" => ret = Num(4)

C2_Witness ==
  /\ Values(h) = <<Num(0), Num(1), Num(2), Num(3)>>
  /\ Values(x) = <<Num(0), Num(1), Num(4), Num(9)>>
  /\ lastOp = "dot_now"
  /\ ret = Num(4)

\* C9: whenever the time axis and the window on it advance once in lockstep,
\* the value dot_old() returns after the step is the value dot_now() returned
\* before it.
C9_DotNowBecomesDotOld ==
  [][lastOp' = "next" => dot_old(x', h') = dot_now(x, h)]_vars

C9_Witness ==
  /\ nnext >= 2
  /\ lastOp = "dot_old"
  /\ IsFin(ret) /\ ret.m # 0
  /\ ret # dot_now(x, h)

(***************************************************************************)
(* The sampler with a clock that only moves forward                        *)
(***************************************************************************)
\* latest time of a run
MaxTime == 7

Increasing(w) ==
  /\ FLt(get_old2(w), get_old(w))
  /\ FLt(get_old(w), get_now(w))
  /\ FLt(get_now(w), get_future(w))

InitMono ==
  /\ \E t0, t1, t2, t3 \in 0..4 :
       /\ h = Discrete4(Num(t0), Num(t1), Num(t2), Num(t3), "null")
       /\ Increasing(h)
  /\ \E v \in Samples : x = Discrete4(Num(1), v, Num(2), v, "h")
  /\ y = DiscreteH("h")
  /\ p = NoVecWin /\ gam = DiscreteH("h") /\ bet = NoVecWin
  /\ fed = <<>>
  /\ nnext = 0
  /\ ret = Zero
  /\ lastOp = "Discrete"
  /\ poly = NoPoly
  /\ ndebug = FALSE
  /\ aborted = FALSE

\* a sampler step whose new time is later than every time on the axis
SamplerStepLater(t, v) ==
  /\ FLt(get_future(h), t)
  /\ SamplerStep(t, v)

NextMono ==
  \/ \E n \in 0..MaxTime, v \in Samples : SamplerStepLater(Num(n), v)
  \/ CallDotOld
  \/ CallDotNow

SpecMono == InitMono /\ [][NextMono]_vars

\* C10: on an axis constructed strictly increasing and only ever advanced to
\* a later time, the four times stay strictly increasing, both denominators
\* h.now - h.old2 and h.future - h.old are positive, and neither derivative
\* divides by zero.
C10_AxisStaysIncreasing ==
  /\ Increasing(h)
  /\ FLt(Zero, FSub(get_now(h), get_old2(h)))
  /\ FLt(Zero, FSub(get_future(h), get_old(h)))
  /\ lastOp \in {"dot_old", "dot_now"} => IsFin(ret)

C10_Witness ==
  /\ nnext >= 2
  /\ lastOp = "dot_now"
  /\ FSub(get_future(h), get_old(h)) = Num(3)
  /\ ret.m # 0

(***************************************************************************)
(* A quadratic q(t) = a t^2 + b t + c sampled on a uniform time axis       *)
(***************************************************************************)
\* whether the integer n is a double, that is, Num(n) does not round
IsRep(n) ==
  LET len == BitLen(Abs(n))
  IN len <= Prec \/ Abs(n) % Pow2(len - Prec) = 0

\* q(t) and q'(t), as exact integers
PolyAt(q, t) == q.a * t * t + q.b * t + q.c

PolyDot(q, t) == 2 * q.a * t + q.b

\* the i-th sampling time, t0 + i dt
TimeAt(q, i) == q.t0 + i * q.dt

\* the sample the sampler stores for time i: q there, rounded to a double
SampleAt(q, i) == Num(PolyAt(q, TimeAt(q, i)))

InitPoly ==
  /\ \E a \in {-1, 0, 1, 2}, b \in {-2, 0, 3}, c \in {0, 5},
        t0 \in {-1, 0, 2}, dt \in {1, 2, 3} :
       poly = [a |-> a, b |-> b, c |-> c, t0 |-> t0, dt |-> dt, k |-> 0]
  /\ h = Discrete4(Num(TimeAt(poly, 0)), Num(TimeAt(poly, 1)),
                   Num(TimeAt(poly, 2)), Num(TimeAt(poly, 3)), "null")
  /\ x = Discrete4(SampleAt(poly, 0), SampleAt(poly, 1),
                   SampleAt(poly, 2), SampleAt(poly, 3), "h")
  /\ y = DiscreteH("h")
  /\ p = NoVecWin /\ gam = DiscreteH("h") /\ bet = NoVecWin
  /\ fed = <<>>
  /\ nnext = 0
  /\ ret = Zero
  /\ lastOp = "Discrete"
  /\ ndebug = FALSE
  /\ aborted = FALSE

\* the sampler moves one uniform step on: h.next(t); x.next(q(t))
PolyStep ==
  /\ ~aborted
  /\ nnext < MaxNext
  /\ h' = next(h, Num(TimeAt(poly, poly.k + 4)))
  /\ x' = next(x, SampleAt(poly, poly.k + 4))
  /\ poly' = [poly EXCEPT !.k = poly.k + 1]
  /\ nnext' = nnext + 1
  /\ lastOp' = "next"
  /\ UNCHANGED <<y, p, gam, bet, fed, ret, ndebug, aborted>>

NextPoly ==
  \/ PolyStep
  \/ CallDotOld
  \/ CallDotNow

SpecPoly == InitPoly /\ [][NextPoly]_vars

\* the axis holds the times k .. k+3: old is k+1 and now is k+2
PolyOld == PolyDot(poly, TimeAt(poly, poly.k + 1))

PolyNow == PolyDot(poly, TimeAt(poly, poly.k + 2))

\* C8 (as claimed): for a polynomial of degree <= 2 sampled on a uniform
\* axis, dot_old() equals q'(t) at the axis's old time and dot_now() equals
\* q'(t) at its now time.
C8_StencilExact ==
  /\ lastOp = "dot_old" => (IsRep(PolyOld) /\ ret = Num(PolyOld))
  /\ lastOp = "dot_now" => (IsRep(PolyNow) /\ ret = Num(PolyNow))

\* nothing the stencil over the samples i and i+2 touches is rounded: the two
\* times, the two samples, both differences and the derivative between them
NoRounding(i) ==
  /\ IsRep(TimeAt(poly, i)) /\ IsRep(TimeAt(poly, i + 2))
  /\ IsRep(TimeAt(poly, i + 2) - TimeAt(poly, i))
  /\ IsRep(PolyAt(poly, TimeAt(poly, i)))
  /\ IsRep(PolyAt(poly, TimeAt(poly, i + 2)))
  /\ IsRep(PolyAt(poly, TimeAt(poly, i + 2)) - PolyAt(poly, TimeAt(poly, i)))
  /\ IsRep(PolyDot(poly, TimeAt(poly, i + 1)))

\* C8 (amended): dot_old() and dot_now() equal q'(t) at the old and the now
\* time exactly when no value the stencil touches is rounded: the two samples
\* and the two times it reads, their differences and q'(t) itself are doubles.
\* When a sample or a difference is rounded the results agree with q'(t) only
\* to within rounding error.
C8_StencilExactUnrounded ==
  /\ (lastOp = "dot_old" /\ NoRounding(poly.k)) => ret = Num(PolyOld)
  /\ (lastOp = "dot_now" /\ NoRounding(poly.k + 1)) => ret = Num(PolyNow)

C8_Witness ==
  /\ lastOp = "dot_old"
  /\ poly.a = 2 /\ poly.b = 3 /\ poly.dt = 2
  /\ poly.k >= 1
  /\ NoRounding(poly.k)
  /\ ret = Num(PolyOld)

(***************************************************************************)
(* The conversion momentum -> gamma -> beta, once per time step            *)
(***************************************************************************)
\* a momentum with the components n * 2^-75 kg m/s (m_e c is about 10 * 2^-75)
Mom(n1, n2, n3) == <<Rnd(n1, -75), Rnd(n2, -75), Rnd(n3, -75)>>

Momenta ==
  {Mom(0, 0, 0), Mom(1, 0, 0), Mom(10, 0, 0), Mom(3, -4, 12), Mom(7, 7, 7),
   Mom(0, 0, -40), Mom(-25, 60, 0), Mom(120, 160, 0), Mom(160, 0, 0),
   Mom(0, -1000, 0)}

\* most conversions of one run after the first
MaxConv == 3

InitRel ==
  /\ h = StdAxis
  /\ \E v \in {Mom(0, 0, 0), Mom(10, 0, 0)} :
       p = Discrete4(v, Mom(3, -4, 12), v, Mom(160, 0, 0), "h")
  /\ gam = momentum_to_gamma(p)
  /\ bet = momentum_to_beta(p, gam)
  /\ x = DiscreteH("h") /\ y = DiscreteH("h")
  /\ fed = <<>>
  /\ nnext = 0
  /\ ret = Zero
  /\ lastOp = "momentum_to_beta"
  /\ poly = NoPoly
  /\ ndebug = FALSE
  /\ aborted = FALSE

\* p.next(v)
NextP(v) ==
  /\ ~aborted
  /\ lastOp = "momentum_to_beta"
  /\ nnext < MaxConv
  /\ p' = next(p, v)
  /\ nnext' = nnext + 1
  /\ lastOp' = "next"
  /\ UNCHANGED <<h, x, y, gam, bet, fed, ret, poly, ndebug, aborted>>

\* gam = momentum_to_gamma(p)
ToGamma ==
  /\ ~aborted
  /\ lastOp = "next"
  /\ gam' = momentum_to_gamma(p)
  /\ lastOp' = "momentum_to_gamma"
  /\ UNCHANGED <<h, x, y, p, bet, fed, nnext, ret, poly, ndebug, aborted>>

\* bet = momentum_to_beta(p, gam)
ToBeta ==
  /\ ~aborted
  /\ lastOp = "momentum_to_gamma"
  /\ bet' = momentum_to_beta(p, gam)
  /\ lastOp' = "momentum_to_beta"
  /\ UNCHANGED <<h, x, y, p, gam, fed, nnext, ret, poly, ndebug, aborted>>

NextRel ==
  \/ \E v \in Momenta : NextP(v)
  \/ ToGamma
  \/ ToBeta

SpecRel == InitRel /\ [][NextRel]_vars

ZeroVec == <<Zero, Zero, Zero>>

\* |v| < 1 for a vector of finite doubles, decided exactly: the squares are
\* summed as integers in units of the smallest component's 2^(2e)
NormBelowOne(v) ==
  LET nz == {i \in 1..3 : v[i].m # 0}
  IN IF nz = {} THEN TRUE
     ELSE LET emin == CHOOSE e \in {v[i].e : i \in nz} :
                        \A i \in nz : e <= v[i].e
              sq(i) == v[i].m * v[i].m * Pow2(2 * (v[i].e - emin))
          IN emin < 0 /\ sq(1) + sq(2) + sq(3) < Pow2(-2 * emin)

\* C5: each slot of momentum_to_gamma(p) is gamma of the same slot of p, each
\* slot of momentum_to_beta(p, g) is beta of the same slots of p and g, and
\* both windows are bound to the converter's time axis.
C5_SlotWise ==
  /\ lastOp = "momentum_to_gamma" =>
       /\ Values(gam) = <<gamma(p.old2), gamma(p.old), gamma(p.now),
                          gamma(p.future)>>
       /\ gam.h = stepwidth
  /\ lastOp = "momentum_to_beta" =>
       /\ Values(bet) = <<beta(p.old2, gam.old2), beta(p.old, gam.old),
                          beta(p.now, gam.now), beta(p.future, gam.future)>>
       /\ bet.h = stepwidth

C5_Witness ==
  /\ lastOp = "momentum_to_beta"
  /\ nnext >= 2
  /\ Cardinality({p.old2, p.old, p.now, p.future}) = 4
  /\ Cardinality({gam.old2, gam.old, gam.now, gam.future}) = 4
  /\ Cardinality({bet.old2, bet.old, bet.now, bet.future}) = 4

\* C6: gamma is never below 1 and is exactly 1 for the zero momentum: every
\* slot of the window momentum_to_gamma returns is >= 1, and a slot computed
\* from the zero vector is 1.
C6_GammaAtLeastOne ==
  /\ \A i \in 1..4 : IsFin(Values(gam)[i]) /\ FLe(One, Values(gam)[i])
  /\ lastOp = "momentum_to_gamma" =>
       \A i \in 1..4 : Values(p)[i] = ZeroVec => Values(gam)[i] = One

C6_Witness ==
  /\ lastOp = "momentum_to_gamma"
  /\ p.future = ZeroVec /\ gam.future = One
  /\ p.now # ZeroVec /\ FLt(One, gam.now)

\* C7: for a momentum window p and the gamma window derived from it, every
\* slot of momentum_to_beta(p, momentum_to_gamma(p)) has norm below 1.
C7_BetaBelowOne ==
  lastOp = "momentum_to_beta" => \A i \in 1..4 : NormBelowOne(Values(bet)[i])
====
